---- MODULE Spec2Model ----
(***************************************************************************)
(* Blocking master-mode I2C driver of embassy-stm32 (i2c/v1.rs).           *)
(*                                                                         *)
(* The driver is a sequential program; the peripheral is its environment.  *)
(* One driver action is one register access (a poll iteration that ends in *)
(* Ok is one SR1 read followed by the local test of the awaited bit).  The *)
(* read-modify-write of SR1 that clears a flag is two steps, because the   *)
(* hardware may raise flags in between.  CR1 `modify` is taken as one step.*)
(*                                                                         *)
(* The data register is a port: a write hands a byte to the shift register,*)
(* a read returns the byte the hardware received; both are events of log.  *)
(*                                                                         *)
(* SR1 holds the error flags as state.  The progress bits of SR1 (SB, ADDR,*)
(* TXE, BTF, RXNE) and SR2 (MSL, BUSY) are owned by the hardware and only  *)
(* observed by the driver: a read returns any value (\E over the bit).     *)
(* Error flags are raised by the hardware at any time (HwSetFlag) and are  *)
(* cleared only by a driver write of 0 (rc_w0).                            *)
(***************************************************************************)
EXTENDS Integers, Sequences, FiniteSets, TLC

VARIABLES
    pc,       \* position of the driver
    op,       \* operation in progress: "none", "write", "read", "write_read", "monitor"
    addr,     \* argument addr: u8
    bytes,    \* argument bytes: &[u8]
    buflen,   \* length of argument buffer: &mut [u8]
    idx,      \* bytes sent (write phase) or received (read phase) so far
    buffer,   \* bytes stored into the read buffer so far
    result,   \* "none" while running, then "Ok", an Error, or "panic"
    monpc,    \* poll loop whose monitor call found a flag (error or BERR)
    pend,     \* error flag the monitor found first and is about to clear
    snapbit,  \* awaited progress bit of the snapshot held across the BERR clear
    mreg,     \* value read by the SR1 modify, between its read and its write
    cr1,      \* CR1: [pe, start, stop, ack]
    sr1,      \* SR1: error flags currently set (incl. BERR)
    cr2,      \* CR2.FREQ
    ccr,      \* CCR: [f_s, duty, ccr]
    trise,    \* TRISE.TRISE
    log,      \* history: register accesses of the current operation that made progress
    touched,  \* history: the current operation has accessed some register
    sr2,      \* SR2 bits read last in the master/busy wait, until the address byte is written
    ncfg,     \* history: number of set_config calls so far
    cfgin,    \* history: <<clock, speed>> given to the last Timings::new
    mon0,     \* history (SpecMon): SR1 before the first monitor call
    reports   \* history (SpecMon): results of the monitor calls so far

vars == <<pc, op, addr, bytes, buflen, idx, buffer, result, monpc, pend, snapbit,
          mreg, cr1, sr1, cr2, ccr, trise, log, touched, sr2, ncfg, cfgin, mon0,
          reports>>

args   == <<op, addr, bytes, buflen>>
monloc == <<monpc, pend, snapbit, mreg>>
timing == <<cr2, ccr, trise>>
hmon   == <<mon0, reports>>
hcfg   == <<ncfg, cfgin>>

----------------------------------------------------------------------------
(* Bounds of the model *)

MaxWrite == 2      \* longest payload
MaxRead  == 2      \* longest read buffer
MaxCfg   == 2      \* set_config calls per behaviour
MaxCalls == 7      \* monitor calls per behaviour of SpecMon

(* Inputs *)

Addrs == {1, 200}
Payload(n) == [i \in 1..n |-> 16 + i]
Payloads == {Payload(n) : n \in 0..MaxWrite}
BufLens == 0..MaxRead
RxVals == {165}
Clocks == {1000000, 8000000, 50000000, 51000000}   \* T::frequency(), in Hz
Speeds == {100000, 400000}                         \* requested bus frequency, in Hz

----------------------------------------------------------------------------
(* Error Flag Monitor: check_and_clear_error_flags *)

ErrOrder == <<"timeout", "pecerr", "ovr", "af", "arlo">>
ErrFlags == {ErrOrder[i] : i \in 1..Len(ErrOrder)}
AllFlags == ErrFlags \cup {"berr"}

\* mutant: the branches tested from the last to the first
FirstErrReversed(s) ==
    ErrOrder[CHOOSE i \in 1..Len(ErrOrder) :
                /\ ErrOrder[i] \in s
                /\ \A j \in (i+1)..Len(ErrOrder) : ErrOrder[j] \notin s]

\* mutant: the not-acknowledged branch tested first
FirstErrNackFirst(s) ==
    IF "af" \in s THEN "af"
    ELSE ErrOrder[CHOOSE i \in 1..Len(ErrOrder) :
                    /\ ErrOrder[i] \in s
                    /\ \A j \in 1..(i-1) : ErrOrder[j] \notin s]

\* the flag of the first `if sr1.x()` that is taken
FirstErr(s) ==
    ErrOrder[CHOOSE i \in 1..Len(ErrOrder) :
                /\ ErrOrder[i] \in s
                /\ \A j \in 1..(i-1) : ErrOrder[j] \notin s]

\* the Error returned with the flag
ErrorOf(f) ==
    CASE f = "timeout" -> "Timeout"
      [] f = "pecerr"  -> "Crc"
      [] f = "ovr"     -> "Overrun"
      [] f = "af"      -> "Nack"
      [] f = "arlo"    -> "Arbitration"

\* SR1 after a write of val: the flags are rc_w0, a 0 clears and a 1 is ignored
Sr1Write(cur, val) == cur \cap val

\* the closure |reg| reg.set_X(false) of the error branches, on the value read
ClearErr(val, f) == val \ {f}

\* mutant: BERR is left as read
ClearBerrNothing(val) == val

\* the closure |reg| reg.set_berr(false), on the value read
ClearBerr(val) == val \ {"berr"}

----------------------------------------------------------------------------
(* Address byte *)

U8(x) == x % 256

\* mutant: the direction bit set in the write phase too
WriteAddrByteBit0(a) == U8(a * 2) + 1

WriteAddrByte(a) == U8(a * 2)
ReadAddrByte(a)  == U8(U8(a * 2) + 1)

----------------------------------------------------------------------------
(* Timings::new *)

\* clock and speed are u32 values below 2^31; clock < 51,000,000 where the
\* products are formed (after the assert!).

\* `speed * 3` does not fit u32: it wraps, or panics with overflow checks on
Mul3Overflows(speed) == speed > 1431655765

\* clock / (speed * 3) with the product wrapped to 32 bits.  A product of
\* 2^31 or more that fits u32 is larger than clock; a product that does not
\* fit is speed * 3 - 2^32 = 3 * (speed - 1431655766) + 2.
DivMul3(clock, speed) ==
    IF speed <= 715827882 THEN clock \div (speed * 3)
    ELSE IF ~Mul3Overflows(speed) THEN 0
    ELSE clock \div (3 * (speed - 1431655766) + 2)

\* mutant: the rise time of fast mode without the + 1
TimingsTriseFloor(clock, speed) ==
    LET freq == clock \div 1000000 IN
    IF ~(freq >= 2 /\ freq <= 50) THEN [panic |-> TRUE, overflow |-> FALSE]
    ELSE IF speed = 0 THEN [panic |-> TRUE, overflow |-> FALSE]
    ELSE
      LET tr == IF speed <= 100000 THEN freq + 1 ELSE (freq * 300) \div 1000
          q2 == clock \div (speed * 2)
          q3 == DivMul3(clock, speed)
          c  == IF speed <= 100000
                THEN (IF q2 < 4 THEN 4 ELSE q2)
                ELSE (IF q3 < 1 THEN 1 ELSE q3)
      IN [panic |-> FALSE,
          overflow |-> speed > 100000 /\ Mul3Overflows(speed),
          freq  |-> freq % 256,
          mode  |-> IF speed <= 100000 THEN "Standard" ELSE "Fast",
          trise |-> tr % 256,
          ccr   |-> c % 65536,
          duty  |-> "Duty2_1"]

\* Timings::new.  panic: the assert! fails or speed * 2 is zero.  overflow:
\* speed * 3 wrapped, the fields are those of a build without overflow checks.
Timings(clock, speed) ==
    LET freq == clock \div 1000000 IN
    IF ~(freq >= 2 /\ freq <= 50) THEN [panic |-> TRUE, overflow |-> FALSE]   \* assert!
    ELSE IF speed = 0 THEN [panic |-> TRUE, overflow |-> FALSE]   \* division by zero
    ELSE
      LET tr == IF speed <= 100000 THEN freq + 1 ELSE (freq * 300) \div 1000 + 1
          q2 == clock \div (speed * 2)
          q3 == DivMul3(clock, speed)
          c  == IF speed <= 100000
                THEN (IF q2 < 4 THEN 4 ELSE q2)
                ELSE (IF q3 < 1 THEN 1 ELSE q3)
      IN [panic |-> FALSE,
          overflow |-> speed > 100000 /\ Mul3Overflows(speed),
          freq  |-> freq % 256,             \* freq as u8
          mode  |-> IF speed <= 100000 THEN "Standard" ELSE "Fast",
          trise |-> tr % 256,               \* trise as u8
          ccr   |-> c % 65536,              \* ccr as u16
          duty  |-> "Duty2_1"]

\* Timings::new does not return: always on panic, and on overflow in a build
\* with overflow checks
NoTimings(t, checks) == t.panic \/ (t.overflow /\ checks)

CcrOf(t) == [f_s |-> t.mode, duty |-> t.duty, ccr |-> t.ccr]

----------------------------------------------------------------------------
(* State after I2c::new: peripheral enabled, timing registers programmed *)

InitRegs(t) ==
    /\ cr1 = [pe |-> TRUE, start |-> FALSE, stop |-> FALSE, ack |-> FALSE]
    /\ cr2 = t.freq
    /\ ccr = CcrOf(t)
    /\ trise = t.trise

InitDriver ==
    /\ pc = "idle"
    /\ op = "none"
    /\ addr = 0
    /\ bytes = <<>>
    /\ buflen = 0
    /\ idx = 0
    /\ buffer = <<>>
    /\ result = "none"
    /\ monpc = "none"
    /\ pend = "none"
    /\ snapbit = FALSE
    /\ mreg = {}
    /\ log = <<>>
    /\ touched = FALSE
    /\ sr2 = {}
    /\ ncfg = 0
    /\ reports = <<>>

Init ==
    /\ InitDriver
    /\ InitRegs(Timings(8000000, 100000))
    /\ cfgin = <<8000000, 100000>>
    /\ sr1 = {}
    /\ mon0 = {}

----------------------------------------------------------------------------
(* Calls and returns *)

\* mutant: no check for the empty buffer
ReadEntryNoCheck(n) == <<"r_start", "none">>

\* blocking_read: `if let Some((last, buffer)) = buffer.split_last_mut()`
ReadEntry(n) == IF n = 0 THEN <<"done", "Overrun">> ELSE <<"r_start", "none">>

\* mutant: blocking_write_read ends the write phase with STOP like blocking_write
AfterWriteBytesStop(o, n) == <<"w_stop", "none">>

\* where the caller of write_bytes goes on after Ok(())
AfterWriteBytes(o, n) == IF o = "write" THEN <<"w_stop", "none">> ELSE ReadEntry(n)

Enter(o, a, bs, n) ==
    /\ pc = "idle"
    /\ op' = o
    /\ addr' = a
    /\ bytes' = bs
    /\ buflen' = n
    /\ idx' = 0
    /\ buffer' = <<>>
    /\ log' = <<>>
    /\ touched' = FALSE
    /\ UNCHANGED <<monloc, cr1, sr1, timing, sr2, hcfg, hmon>>

blocking_write(a, bs) ==
    /\ Enter("write", a, bs, 0)
    /\ pc' = "wb_start"
    /\ result' = "none"

blocking_read(a, n) ==
    /\ Enter("read", a, <<>>, n)
    /\ pc' = ReadEntry(n)[1]
    /\ result' = ReadEntry(n)[2]

\* mutant: the empty buffer is refused before the write phase
blocking_write_read_precheck(a, bs, n) ==
    /\ Enter("write_read", a, bs, n)
    /\ pc' = IF n = 0 THEN "done" ELSE "wb_start"
    /\ result' = IF n = 0 THEN "Overrun" ELSE "none"

blocking_write_read(a, bs, n) ==
    /\ Enter("write_read", a, bs, n)
    /\ pc' = "wb_start"
    /\ result' = "none"

\* the call has returned; the next one starts from the registers as they are
Return ==
    /\ pc = "done"
    /\ op \in {"write", "read", "write_read"}
    /\ pc' = "idle"
    /\ op' = "none"
    /\ addr' = 0
    /\ bytes' = <<>>
    /\ buflen' = 0
    /\ idx' = 0
    /\ buffer' = <<>>
    /\ result' = "none"
    /\ monpc' = "none"
    /\ pend' = "none"
    /\ log' = <<>>
    /\ touched' = FALSE
    /\ UNCHANGED <<snapbit, mreg, cr1, sr1, timing, sr2, hcfg, hmon>>

----------------------------------------------------------------------------
(* Poll loops that go through check_and_clear_error_flags *)

MonPcs == {"wb_sb", "wb_msl", "wb_wait_addr", "sb_txe", "sb_btf",
           "r_wait_addr", "rb_mon", "mon_only"}

\* The caller's step after Ok(sr1): b is the awaited bit of the returned snapshot.
Cont(p, b) ==
    CASE p = "wb_sb" ->          \* while !...?.start() {}
           /\ pc' = IF b THEN "wb_msl" ELSE p
           /\ log' = IF b THEN Append(log, <<"SB", 0>>) ELSE log
           /\ UNCHANGED <<idx, result>>
      [] p = "wb_msl" ->         \* self.check_and_clear_error_flags()?; then SR2
           /\ pc' = "wb_sr2"
           /\ UNCHANGED <<log, idx, result>>
      [] p = "wb_wait_addr" ->   \* while !...?.addr() {}
           /\ pc' = IF b THEN "wb_clr" ELSE p
           /\ log' = IF b THEN Append(log, <<"ADDR", 0>>) ELSE log
           /\ UNCHANGED <<idx, result>>
      [] p = "sb_txe" ->         \* while { !...?.txe() } {}
           /\ pc' = IF b THEN "sb_dr" ELSE p
           /\ log' = IF b THEN Append(log, <<"TXE", 0>>) ELSE log
           /\ UNCHANGED <<idx, result>>
      [] p = "sb_btf" ->         \* while { !...?.btf() } {}; next c or return
           IF b
           THEN /\ log' = Append(log, <<"BTF", 0>>)
                /\ idx' = idx + 1
                /\ IF idx + 1 < Len(bytes)
                   THEN pc' = "sb_txe" /\ result' = result
                   ELSE /\ pc' = AfterWriteBytes(op, buflen)[1]
                        /\ result' = AfterWriteBytes(op, buflen)[2]
           ELSE /\ pc' = p
                /\ UNCHANGED <<log, idx, result>>
      [] p = "r_wait_addr" ->    \* while unsafe { !...?.addr() } {}
           /\ pc' = IF b THEN "r_clr" ELSE p
           /\ log' = IF b THEN Append(log, <<"ADDR", 0>>) ELSE log
           /\ UNCHANGED <<idx, result>>
      [] p = "rb_mon" ->         \* self.check_and_clear_error_flags()?; then SR1
           /\ pc' = "rb_rxne"
           /\ UNCHANGED <<log, idx, result>>
      [] p = "mon_only" ->       \* the monitor called on its own
           /\ pc' = "done"
           /\ result' = "Ok"
           /\ UNCHANGED <<log, idx>>

\* let sr1 = T::regs().sr1().read(); and the branch taken on it
check_and_clear_error_flags(p) ==
    /\ pc = p
    /\ touched' = TRUE
    /\ \E b \in BOOLEAN :
         IF sr1 \cap ErrFlags # {}
         THEN /\ pc' = "mon_clr_rd"
              /\ pend' = FirstErr(sr1)
              /\ monpc' = p
              /\ UNCHANGED <<snapbit, mreg, log, idx, result>>
         ELSE IF "berr" \in sr1
         THEN /\ pc' = "berr_rd"
              /\ monpc' = p
              /\ snapbit' = b
              /\ UNCHANGED <<pend, mreg, log, idx, result>>
         ELSE /\ Cont(p, b)
              /\ UNCHANGED monloc
    /\ UNCHANGED <<args, buffer, cr1, sr1, timing, sr2, hcfg, hmon>>

\* sr1().modify(|reg| reg.set_X(false)): the read
clear_flag_read ==
    /\ pc \in {"mon_clr_rd", "berr_rd"}
    /\ pc' = IF pc = "mon_clr_rd" THEN "mon_clr_wr" ELSE "berr_wr"
    /\ mreg' = sr1
    /\ UNCHANGED <<args, idx, buffer, result, monpc, pend, snapbit, cr1, sr1,
                   timing, log, touched, sr2, hcfg, hmon>>

\* the Error a monitor call returns after clearing flag f
MonitorErr(f) == ErrorOf(f)

\* mutant: the flag is cleared and the poll goes on, no Err is returned
clear_error_write_retry ==
    /\ pc = "mon_clr_wr"
    /\ sr1' = Sr1Write(sr1, ClearErr(mreg, pend))
    /\ mreg' = {}
    /\ pc' = monpc
    /\ monpc' = "none"
    /\ pend' = "none"
    /\ UNCHANGED <<args, idx, buffer, result, snapbit, cr1, timing, log,
                   touched, sr2, hcfg, hmon>>

\* mutant: a STOP is requested before the error is returned
clear_error_write_stop ==
    /\ pc = "mon_clr_wr"
    /\ sr1' = Sr1Write(sr1, ClearErr(mreg, pend))
    /\ mreg' = {}
    /\ cr1' = [cr1 EXCEPT !.stop = TRUE]
    /\ pc' = "done"
    /\ result' = MonitorErr(pend)
    /\ UNCHANGED <<args, idx, buffer, monpc, pend, snapbit, timing, log,
                   touched, sr2, hcfg, hmon>>

\* ... the write, and return Err(..)
clear_error_write ==
    /\ pc = "mon_clr_wr"
    /\ sr1' = Sr1Write(sr1, ClearErr(mreg, pend))
    /\ mreg' = {}
    /\ pc' = "done"
    /\ result' = MonitorErr(pend)
    /\ UNCHANGED <<args, idx, buffer, monpc, pend, snapbit, cr1, timing, log,
                   touched, sr2, hcfg, hmon>>

\* ... the write of the BERR clear, and Ok(sr1)
clear_berr_write ==
    /\ pc = "berr_wr"
    /\ sr1' = Sr1Write(sr1, ClearBerr(mreg))
    /\ mreg' = {}
    /\ monpc' = "none"
    /\ snapbit' = FALSE
    /\ Cont(monpc, snapbit)
    /\ UNCHANGED <<args, buffer, pend, cr1, timing, touched, sr2, hcfg, hmon>>

----------------------------------------------------------------------------
(* write_bytes and send_byte *)

\* what the driver leaves alone in a step on CR1, SR2 or DR
drvFrame == <<args, monloc, sr1, timing, hcfg, hmon>>

\* cr1().modify(|reg| reg.set_start(true))
wb_start ==
    /\ pc = "wb_start"
    /\ cr1' = [cr1 EXCEPT !.start = TRUE]
    /\ log' = Append(log, <<"START", 0>>)
    /\ touched' = TRUE
    /\ pc' = "wb_sb"
    /\ UNCHANGED <<drvFrame, sr2, idx, buffer, result>>

\* let sr2 = sr2().read(); !sr2.msl() && !sr2.busy()
wb_sr2 ==
    /\ pc = "wb_sr2"
    /\ \E v \in SUBSET {"msl", "busy"} :
         /\ sr2' = v
         /\ IF "msl" \notin v /\ "busy" \notin v
            THEN pc' = "wb_msl" /\ log' = log
            ELSE pc' = "wb_addr" /\ log' = Append(log, <<"MSL", 0>>)
    /\ UNCHANGED <<drvFrame, idx, buffer, result, cr1, touched>>

\* dr().write(|reg| reg.set_dr(addr << 1))
wb_addr ==
    /\ pc = "wb_addr"
    /\ log' = Append(log, <<"DW", WriteAddrByte(addr)>>)
    /\ sr2' = {}
    /\ pc' = "wb_wait_addr"
    /\ UNCHANGED <<drvFrame, idx, buffer, result, cr1, touched>>

\* mutant: no read of SR2 after the address is acknowledged
wb_clr_skip ==
    /\ pc = "wb_clr"
    /\ IF Len(bytes) > 0
       THEN pc' = "sb_txe" /\ result' = result
       ELSE /\ pc' = AfterWriteBytes(op, buflen)[1]
            /\ result' = AfterWriteBytes(op, buflen)[2]
    /\ UNCHANGED <<drvFrame, sr2, idx, buffer, cr1, touched, log>>

\* let _ = sr2().read(); then the first send_byte, or Ok(())
wb_clr ==
    /\ pc = "wb_clr"
    /\ log' = Append(log, <<"CLR", 0>>)
    /\ IF Len(bytes) > 0
       THEN pc' = "sb_txe" /\ result' = result
       ELSE /\ pc' = AfterWriteBytes(op, buflen)[1]
            /\ result' = AfterWriteBytes(op, buflen)[2]
    /\ UNCHANGED <<drvFrame, sr2, idx, buffer, cr1, touched>>

\* dr().write(|reg| reg.set_dr(byte))
sb_dr ==
    /\ pc = "sb_dr"
    /\ log' = Append(log, <<"DW", bytes[idx + 1]>>)
    /\ pc' = "sb_btf"
    /\ UNCHANGED <<drvFrame, sr2, idx, buffer, result, cr1, touched>>

----------------------------------------------------------------------------
(* blocking_write after write_bytes *)

\* cr1().modify(|reg| reg.set_stop(true))
w_stop ==
    /\ pc = "w_stop"
    /\ cr1' = [cr1 EXCEPT !.stop = TRUE]
    /\ log' = Append(log, <<"STOP", 0>>)
    /\ pc' = "wait_stop"
    /\ UNCHANGED <<drvFrame, sr2, idx, buffer, result, touched>>

\* mutant: the wait gives up with Timeout while STOP is still set
wait_stop_bounded ==
    /\ pc = "wait_stop"
    /\ IF cr1.stop
       THEN /\ pc' = "done"
            /\ result' = "Timeout"
            /\ log' = log
       ELSE /\ pc' = "done"
            /\ result' = "Ok"
            /\ log' = Append(log, <<"STOPCLR", 0>>)
    /\ UNCHANGED <<drvFrame, sr2, idx, buffer, cr1, touched>>

\* while cr1().read().stop() {}: in blocking_write and in blocking_read
wait_stop ==
    /\ pc = "wait_stop"
    /\ IF cr1.stop
       THEN UNCHANGED <<pc, log, result>>
       ELSE /\ pc' = "done"
            /\ result' = "Ok"
            /\ log' = Append(log, <<"STOPCLR", 0>>)
    /\ UNCHANGED <<drvFrame, sr2, idx, buffer, cr1, touched>>

----------------------------------------------------------------------------
(* blocking_read and recv_byte *)

\* cr1().modify(|reg| { reg.set_start(true); reg.set_ack(true); })
r_start ==
    /\ pc = "r_start"
    /\ cr1' = [cr1 EXCEPT !.start = TRUE, !.ack = TRUE]
    /\ log' = Append(log, <<"START_ACK", 0>>)
    /\ touched' = TRUE
    /\ idx' = 0
    /\ pc' = "r_sb"
    /\ UNCHANGED <<drvFrame, sr2, buffer, result>>

\* while unsafe { !sr1().read().start() } {}
r_sb ==
    /\ pc = "r_sb"
    /\ \E b \in BOOLEAN :
         /\ pc' = IF b THEN "r_msl" ELSE "r_sb"
         /\ log' = IF b THEN Append(log, <<"SB", 0>>) ELSE log
    /\ UNCHANGED <<drvFrame, sr2, idx, buffer, result, cr1, touched>>

\* let sr2 = sr2().read(); !sr2.msl() && !sr2.busy()
r_msl ==
    /\ pc = "r_msl"
    /\ \E v \in SUBSET {"msl", "busy"} :
         /\ sr2' = v
         /\ IF "msl" \notin v /\ "busy" \notin v
            THEN UNCHANGED <<pc, log>>
            ELSE pc' = "r_addr" /\ log' = Append(log, <<"MSL", 0>>)
    /\ UNCHANGED <<drvFrame, idx, buffer, result, cr1, touched>>

\* dr().write(|reg| reg.set_dr((addr << 1) + 1))
r_addr ==
    /\ pc = "r_addr"
    /\ log' = Append(log, <<"DW", ReadAddrByte(addr)>>)
    /\ sr2' = {}
    /\ pc' = "r_wait_addr"
    /\ UNCHANGED <<drvFrame, idx, buffer, result, cr1, touched>>

\* mutant: the last byte is received like the others, no NACK/STOP before it
RecvNextNoNack(i, n) == IF i < n THEN "rb_mon" ELSE "wait_stop"

\* position after idx of the n bytes are in: `for c in buffer`, the NACK/STOP
\* before `*last`, the STOP wait after it
RecvNext(i, n) ==
    IF i < n - 1 THEN "rb_mon"
    ELSE IF i = n - 1 THEN "r_nack"
    ELSE "wait_stop"

\* let _ = unsafe { sr2().read() }
r_clr ==
    /\ pc = "r_clr"
    /\ log' = Append(log, <<"CLR", 0>>)
    /\ pc' = RecvNext(0, buflen)
    /\ UNCHANGED <<drvFrame, sr2, idx, buffer, result, cr1, touched>>

\* recv_byte: !sr1().read().rxne()
rb_rxne ==
    /\ pc = "rb_rxne"
    /\ \E b \in BOOLEAN :
         /\ pc' = IF b THEN "rb_dr" ELSE "rb_mon"
         /\ log' = IF b THEN Append(log, <<"RXNE", 0>>) ELSE log
    /\ UNCHANGED <<drvFrame, sr2, idx, buffer, result, cr1, touched>>

\* recv_byte: let value = dr().read().dr(); *c = value
rb_dr ==
    /\ pc = "rb_dr"
    /\ \E v \in RxVals : buffer' = Append(buffer, v)
    /\ log' = Append(log, <<"RD", 0>>)
    /\ idx' = idx + 1
    /\ pc' = RecvNext(idx + 1, buflen)
    /\ UNCHANGED <<drvFrame, sr2, result, cr1, touched>>

\* cr1().modify(|reg| { reg.set_ack(false); reg.set_stop(true); })
r_nack ==
    /\ pc = "r_nack"
    /\ cr1' = [cr1 EXCEPT !.ack = FALSE, !.stop = TRUE]
    /\ log' = Append(log, <<"NACK_STOP", 0>>)
    /\ pc' = "rb_mon"
    /\ UNCHANGED <<drvFrame, sr2, idx, buffer, result, touched>>

----------------------------------------------------------------------------
(* The peripheral *)

hwFrame == <<pc, args, idx, buffer, result, monloc, timing, log, touched,
             sr2, hcfg, hmon>>

\* an error flag, or BERR, is raised
HwSetFlag(f) ==
    /\ f \notin sr1
    /\ sr1' = sr1 \cup {f}
    /\ UNCHANGED <<hwFrame, cr1>>

\* the START condition was sent: hardware clears CR1.START
HwStartSent ==
    /\ cr1.start
    /\ cr1' = [cr1 EXCEPT !.start = FALSE]
    /\ UNCHANGED <<hwFrame, sr1>>

\* the STOP condition was sent: hardware clears CR1.STOP
HwStopSent ==
    /\ cr1.stop
    /\ cr1' = [cr1 EXCEPT !.stop = FALSE]
    /\ UNCHANGED <<hwFrame, sr1>>

----------------------------------------------------------------------------
(* The driver with the peripheral *)

Driver ==
    \/ \E p \in MonPcs \ {"mon_only"} : check_and_clear_error_flags(p)
    \/ clear_flag_read
    \/ clear_error_write
    \/ clear_berr_write
    \/ wb_start
    \/ wb_sr2
    \/ wb_addr
    \/ wb_clr
    \/ sb_dr
    \/ w_stop
    \/ wait_stop
    \/ r_start
    \/ r_sb
    \/ r_msl
    \/ r_addr
    \/ r_clr
    \/ rb_rxne
    \/ rb_dr
    \/ r_nack

Calls ==
    \/ \E a \in Addrs, bs \in Payloads : blocking_write(a, bs)
    \/ \E a \in Addrs, n \in BufLens : blocking_read(a, n)
    \/ \E a \in Addrs, bs \in Payloads, n \in BufLens : blocking_write_read(a, bs, n)

Hardware ==
    \/ \E f \in AllFlags : HwSetFlag(f)
    \/ HwStartSent
    \/ HwStopSent

Next ==
    \/ Calls
    \/ Return
    \/ Driver
    \/ Hardware

Spec == Init /\ [][Next]_vars

----------------------------------------------------------------------------
(* SpecMon: the Error Flag Monitor on its own, called again and again on an *)
(* arbitrary status; nothing else touches SR1.                              *)

InitMon ==
    /\ InitDriver
    /\ InitRegs(Timings(8000000, 100000))
    /\ cfgin = <<8000000, 100000>>
    /\ sr1 \in SUBSET AllFlags
    /\ mon0 = sr1

CallMonitor ==
    /\ pc = "idle"
    /\ Len(reports) < MaxCalls
    /\ pc' = "mon_only"
    /\ op' = "monitor"
    /\ UNCHANGED <<addr, bytes, buflen, idx, buffer, result, monloc, cr1, sr1,
                   timing, log, touched, sr2, hcfg, hmon>>

ReturnMonitor ==
    /\ pc = "done"
    /\ op = "monitor"
    /\ reports' = Append(reports, result)
    /\ pc' = "idle"
    /\ op' = "none"
    /\ result' = "none"
    /\ monpc' = "none"
    /\ pend' = "none"
    /\ touched' = FALSE
    /\ UNCHANGED <<addr, bytes, buflen, idx, buffer, snapbit, mreg, cr1, sr1,
                   timing, log, sr2, hcfg, mon0>>

NextMon ==
    \/ CallMonitor
    \/ check_and_clear_error_flags("mon_only")
    \/ clear_flag_read
    \/ clear_error_write
    \/ clear_berr_write
    \/ ReturnMonitor

SpecMon == InitMon /\ [][NextMon]_vars

----------------------------------------------------------------------------
(* SpecCfg: set_config between transactions.  The hardware raises no flag   *)
(* here; any flags may be left over in SR1 from before.                     *)

\* mutant: the peripheral is disabled around the writes, as in new(), and left so
set_config_pe(clock, speed) ==
    /\ pc = "idle"
    /\ ncfg < MaxCfg
    /\ ncfg' = ncfg + 1
    /\ cfgin' = <<clock, speed>>
    /\ \E checks \in BOOLEAN :
         LET t == Timings(clock, speed) IN
           IF NoTimings(t, checks)
           THEN /\ pc' = "panicked"
                /\ result' = "panic"
                /\ UNCHANGED <<timing, cr1>>
           ELSE /\ cr2' = t.freq
                /\ ccr' = CcrOf(t)
                /\ trise' = t.trise
                /\ cr1' = [cr1 EXCEPT !.pe = FALSE]
                /\ UNCHANGED <<pc, result>>
    /\ UNCHANGED <<args, idx, buffer, monloc, sr1, log, touched, sr2, hmon>>

\* mutant: CR2.FREQ is written before the assert! on the divisor
set_config_partial(clock, speed) ==
    /\ pc = "idle"
    /\ ncfg < MaxCfg
    /\ ncfg' = ncfg + 1
    /\ cfgin' = <<clock, speed>>
    /\ \E checks \in BOOLEAN :
         LET t == Timings(clock, speed) IN
           IF NoTimings(t, checks)
           THEN /\ pc' = "panicked"
                /\ result' = "panic"
                /\ cr2' = (clock \div 1000000) % 256
                /\ UNCHANGED <<ccr, trise>>
           ELSE /\ cr2' = t.freq
                /\ ccr' = CcrOf(t)
                /\ trise' = t.trise
                /\ UNCHANGED <<pc, result>>
    /\ UNCHANGED <<args, idx, buffer, monloc, cr1, sr1, log, touched, sr2, hmon>>

\* set_config: Timings::new, then the three modify calls
set_config(clock, speed) ==
    /\ pc = "idle"
    /\ ncfg < MaxCfg
    /\ ncfg' = ncfg + 1
    /\ cfgin' = <<clock, speed>>
    /\ \E checks \in BOOLEAN :
         LET t == Timings(clock, speed) IN
           IF NoTimings(t, checks)
           THEN /\ pc' = "panicked"
                /\ result' = "panic"
                /\ UNCHANGED timing
           ELSE /\ cr2' = t.freq
                /\ ccr' = CcrOf(t)
                /\ trise' = t.trise
                /\ UNCHANGED <<pc, result>>
    /\ UNCHANGED <<args, idx, buffer, monloc, cr1, sr1, log, touched, sr2, hmon>>

InitCfg ==
    /\ InitDriver
    /\ \E c \in Clocks, s \in Speeds :
         /\ ~Timings(c, s).panic
         /\ InitRegs(Timings(c, s))
         /\ cfgin = <<c, s>>
    /\ sr1 \in SUBSET AllFlags
    /\ mon0 = {}

NextCfg ==
    \/ \E c \in Clocks, s \in Speeds : set_config(c, s)
    \/ Calls
    \/ Return
    \/ Driver
    \/ HwStartSent
    \/ HwStopSent

SpecCfg == InitCfg /\ [][NextCfg]_vars

----------------------------------------------------------------------------
(* SpecTim: Timings::new on its inputs.  The driver is constructed with any *)
(* accepted pair and then reconfigured with any pair, accepted or not.      *)

\* T::frequency(), in Hz: around both ends of the accepted range
TimClocks == {1999999, 2000000, 2097152, 8000000, 50000000, 50999999, 51000000}

\* requested bus frequency, in Hz: zero, the least, around the mode switch,
\* and one whose triple does not fit u32
TimSpeeds == {0, 1, 100000, 100001, 400000, 1431655766}

InitTim ==
    /\ InitDriver
    /\ \E c \in TimClocks, s \in TimSpeeds :
         /\ \E checks \in BOOLEAN : ~NoTimings(Timings(c, s), checks)
         /\ InitRegs(Timings(c, s))
         /\ cfgin = <<c, s>>
    /\ sr1 = {}
    /\ mon0 = {}

NextTim == \E c \in TimClocks, s \in TimSpeeds : set_config(c, s)

SpecTim == InitTim /\ [][NextTim]_vars

----------------------------------------------------------------------------
(* SpecLive: one call from any registers an earlier call can have left,     *)
(* with a peripheral that lets every awaited condition come true.           *)

\* the flags the peripheral raises here: the first and a later one of the
\* monitor's order, and BERR
LiveFlags == {"timeout", "af", "berr"}

InitLive ==
    /\ InitDriver
    /\ cr1 \in [pe : {TRUE}, start : BOOLEAN, stop : BOOLEAN, ack : BOOLEAN]
    /\ cr2 = Timings(8000000, 100000).freq
    /\ ccr = CcrOf(Timings(8000000, 100000))
    /\ trise = Timings(8000000, 100000).trise
    /\ cfgin = <<8000000, 100000>>
    /\ sr1 \in SUBSET LiveFlags
    /\ mon0 = {}

HardwareLive ==
    \/ \E f \in LiveFlags : HwSetFlag(f)
    \/ HwStartSent
    \/ HwStopSent

NextLive ==
    \/ Calls
    \/ Driver
    \/ HardwareLive

\* a poll reads the bit it waits for as set (under the monitor's BERR clear:
\* in the snapshot the monitor returns)
PollSees ==
    \/ \E p \in {"wb_sb", "wb_wait_addr", "sb_txe", "sb_btf", "r_wait_addr"} :
         /\ check_and_clear_error_flags(p)
         /\ pc' # p
         /\ pc' = "berr_rd" => snapbit'
    \/ wb_sr2 /\ pc' = "wb_addr"
    \/ r_sb /\ pc' = "r_msl"
    \/ r_msl /\ pc' = "r_addr"
    \/ rb_rxne /\ pc' = "rb_dr"

\* the driver runs; the hardware sends a requested STOP; a condition a poll
\* waits for is eventually read as true
Fairness ==
    /\ WF_vars(Driver)
    /\ WF_vars(HwStopSent)
    /\ SF_vars(PollSees)

SpecLive == InitLive /\ [][NextLive]_vars /\ Fairness

----------------------------------------------------------------------------
(* What the claims say, in terms of log *)

BusKinds == {"START", "START_ACK", "DW", "RD", "NACK_STOP", "STOP"}

Bus(l) == SelectSeq(l, LAMBDA e : e[1] \in BusKinds)

IsPrefix(s, t) == Len(s) <= Len(t) /\ \A i \in 1..Len(s) : s[i] = t[i]

Positions(l, kinds) == {i \in 1..Len(l) : l[i][1] \in kinds}

FirstPos(l, kinds) == CHOOSE i \in Positions(l, kinds) : \A j \in Positions(l, kinds) : i <= j

\* the log from the START of the read phase on
ReadPart(l) ==
    IF Positions(l, {"START_ACK"}) = {} THEN <<>>
    ELSE SubSeq(l, FirstPos(l, {"START_ACK"}), Len(l))

Repeat(e, n) == [i \in 1..n |-> e]

DataWrites(bs) == [i \in 1..Len(bs) |-> <<"DW", bs[i]>>]

\* write phase on the bus: START, address with bit 0 = 0, the payload
BusWritePhase(a, bs) ==
    <<<<"START", 0>>, <<"DW", (a * 2) % 256>>>> \o DataWrites(bs)

\* read phase on the bus, n >= 1
BusReadPhase(a, n) ==
    <<<<"START_ACK", 0>>, <<"DW", ((a * 2) % 256) + 1>>>>
      \o Repeat(<<"RD", 0>>, n - 1) \o <<<<"NACK_STOP", 0>>, <<"RD", 0>>>>

\* every step of an error-free blocking_write, with what it waited for
FullWrite(a, bs) ==
    <<<<"START", 0>>, <<"SB", 0>>, <<"MSL", 0>>, <<"DW", (a * 2) % 256>>,
      <<"ADDR", 0>>, <<"CLR", 0>>>>
      \o [i \in 1..(3 * Len(bs)) |->
            CASE i % 3 = 1 -> <<"TXE", 0>>
              [] i % 3 = 2 -> <<"DW", bs[(i + 1) \div 3]>>
              [] i % 3 = 0 -> <<"BTF", 0>>]
      \o <<<<"STOP", 0>>, <<"STOPCLR", 0>>>>

\* START requests and data-register accesses only, a repeated START as START
StartsAndData(l) ==
    LET sel == SelectSeq(l, LAMBDA e : e[1] \in {"START", "START_ACK", "DW", "RD"})
    IN [i \in 1..Len(sel) |->
          IF sel[i][1] = "START_ACK" THEN <<"START", 0>> ELSE sel[i]]

----------------------------------------------------------------------------
(* C1: an error-free blocking_write_read with a non-empty payload and a     *)
(* non-empty buffer of length N has requested START, written (addr<<1)|0,   *)
(* written each payload byte in order, requested a repeated START, written  *)
(* (addr<<1)|1 and read the data register N times, in this order and        *)
(* nothing else of these; no STOP was requested before the repeated START.  *)
C1_WriteReadSequence ==
    (pc = "done" /\ op = "write_read" /\ result = "Ok" /\ Len(bytes) >= 1 /\ buflen >= 1)
    => /\ StartsAndData(log) =
            <<<<"START", 0>>, <<"DW", (addr * 2) % 256>>>> \o DataWrites(bytes)
              \o <<<<"START", 0>>, <<"DW", ((addr * 2) % 256) + 1>>>>
              \o Repeat(<<"RD", 0>>, buflen)
       /\ Cardinality(Positions(log, {"START_ACK"})) = 1
       /\ \A i \in Positions(log, {"STOP", "NACK_STOP"}) :
            i > FirstPos(log, {"START_ACK"})

C1_Witness ==
    /\ pc = "done" /\ op = "write_read" /\ result = "Ok"
    /\ Len(bytes) = 2 /\ buflen = 2 /\ addr = 200

(* C2: in every read, ACK is enabled by the same CR1 write that requests    *)
(* START and stays enabled until the one CR1 write that disables ACK and    *)
(* requests STOP; that write comes after the (N-1)-th data-register read    *)
(* and before the N-th, for N = 1 before the only one.                      *)
C2_NackBeforeLastByte ==
    (op \in {"read", "write_read"} /\ buflen >= 1)
    => /\ IsPrefix(Bus(ReadPart(log)), BusReadPhase(addr, buflen))
       /\ (Positions(log, {"START_ACK"}) # {} /\ Positions(log, {"NACK_STOP"}) = {})
            => cr1.ack
       /\ Positions(log, {"NACK_STOP"}) # {} => ~cr1.ack
       /\ (pc = "done" /\ result = "Ok")
            => Bus(ReadPart(log)) = BusReadPhase(addr, buflen)

C2_Witness ==
    /\ pc = "rb_dr" /\ op = "read" /\ buflen = 2 /\ idx = 1
    /\ ~cr1.ack /\ cr1.stop

(* C5: blocking_read with an empty buffer returns Err(Overrun) and has not  *)
(* accessed any register, whatever the registers hold.                      *)
C5_EmptyReadNoBusActivity ==
    (op = "read" /\ buflen = 0)
    => /\ pc = "done"
       /\ result = "Overrun"
       /\ ~touched
       /\ log = <<>>

C5_Witness ==
    /\ pc = "done" /\ op = "read" /\ buflen = 0 /\ result = "Overrun"
    /\ cr1.stop /\ cr1.ack = FALSE /\ sr1 # {}

(* C9: blocking_write in progress has done a prefix of: START, start seen,  *)
(* master/busy seen, address byte with bit 0 = 0, address acknowledged,     *)
(* SR2 read, then per payload byte transmit-empty seen, the byte written,   *)
(* byte-transfer-complete seen, then STOP once, STOP seen cleared; it       *)
(* returns Ok exactly at the end of this sequence, with CR1.STOP clear.     *)
C9_WriteSequence ==
    op = "write"
    => /\ IsPrefix(log, FullWrite(addr, bytes))
       /\ (pc = "done" /\ result = "Ok")
            => /\ log = FullWrite(addr, bytes)
               /\ Cardinality(Positions(log, {"DW"})) = 1 + Len(bytes)
               /\ ~cr1.stop

C9_Witness ==
    /\ pc = "done" /\ op = "write" /\ result = "Ok"
    /\ Len(bytes) = 2 /\ addr = 200

----------------------------------------------------------------------------
(* The errors as the claims name them *)

ClaimFlags  == <<"timeout", "pecerr", "ovr", "af", "arlo">>
ClaimErrors == <<"Timeout", "Crc", "Overrun", "Nack", "Arbitration">>

ClaimIndex(f) == CHOOSE i \in 1..5 : ClaimFlags[i] = f

\* the flags of s in the order timeout, CRC/PEC, overrun, not-acknowledged, arbitration
InClaimOrder(s) == SelectSeq(ClaimFlags, LAMBDA f : f \in s)

ClaimErrorOf(f) == ClaimErrors[ClaimIndex(f)]

\* the poll loops, by the position of the first register access of an iteration
PollEntry == {"wb_sb", "wb_msl", "wb_wait_addr", "sb_txe", "sb_btf",
              "r_sb", "r_msl", "r_wait_addr", "rb_mon", "wait_stop"}

AddrWait == {"wb_wait_addr", "r_wait_addr"}

AbortPath == {"mon_clr_rd", "mon_clr_wr", "done"}

(* C3: in every busy-poll loop an iteration first calls the Error Flag      *)
(* Monitor, so a driver step taken from the head of a poll loop while an    *)
(* error flag is set starts the abort with a flag that is set.              *)
C3_EveryPollMonitored ==
    [][(pc \in PollEntry /\ sr1 \cap ErrFlags # {} /\ pc' # pc)
         => (pc' = "mon_clr_rd" /\ pend' \in sr1)]_vars

(* C4 as stated: the monitor call of an address wait that reads the         *)
(* not-acknowledged flag set reports Nack.                                  *)
C4_NackAlwaysReported ==
    [][(pc \in AddrWait /\ "af" \in sr1 /\ pc' # pc) => pend' = "af"]_vars

(* C4 amended: the monitor call of an address wait that reads the           *)
(* not-acknowledged flag set aborts the operation with the first flag set   *)
(* in the order timeout, CRC/PEC, overrun, not-acknowledged: Nack unless    *)
(* one of the three before it is set too.  The operation aborted in an      *)
(* address wait returns that error, its last bus action is the write of the *)
(* address byte: no payload byte written, no data-register read, and after  *)
(* a write-phase abort no repeated START.                                   *)
C4_NackAtAddressPhase ==
    [][/\ (pc \in AddrWait /\ "af" \in sr1 /\ pc' # pc)
            => /\ pc' = "mon_clr_rd"
               /\ monpc' = pc
               /\ pend' = InClaimOrder(sr1)[1]
               /\ pend' \in {"timeout", "pecerr", "ovr", "af"}
               /\ (sr1 \cap {"timeout", "pecerr", "ovr"} = {} => pend' = "af")
       /\ (monpc' \in AddrWait /\ pend' # "none")
            => /\ pc' \in AbortPath
               /\ (pc' = "done" => result' = ClaimErrorOf(pend'))
               /\ Positions(log', {"RD"}) = {}
               /\ monpc' = "wb_wait_addr"
                    => /\ Bus(log') = <<<<"START", 0>>, <<"DW", (addr' * 2) % 256>>>>
               /\ monpc' = "r_wait_addr"
                    => /\ Bus(log')[Len(Bus(log'))] = <<"DW", ((addr' * 2) % 256) + 1>>
                       /\ Cardinality(Positions(log', {"DW"})) =
                            IF op' = "write_read" THEN 2 + Len(bytes') ELSE 1
      ]_vars

C4_Witness ==
    /\ pc = "done" /\ op = "write_read" /\ monpc = "wb_wait_addr"
    /\ result = "Nack" /\ Len(bytes) = 2 /\ buflen = 2

(* C8: the first error the monitor reports in an operation is the one the   *)
(* operation returns.  From the report to the return the driver writes no   *)
(* register but SR1: nothing is added to the bus actions, and CR1 is only   *)
(* changed by the hardware clearing START or STOP.                          *)
C8_ErrorAbortsWithoutRecovery ==
    [][/\ (pend = "none" /\ pend' # "none")
            => /\ pend' = InClaimOrder(sr1)[1]
               /\ pc' = "mon_clr_rd"
               /\ log' = log /\ cr1' = cr1 /\ sr1' = sr1
       /\ (pend # "none" /\ pc' # "idle")
            => /\ pend' = pend
               /\ pc' \in AbortPath
               /\ log' = log
               /\ (pc' # pc => cr1' = cr1)
               /\ cr1'.pe = cr1.pe /\ cr1'.ack = cr1.ack
               /\ (cr1'.start => cr1.start) /\ (cr1'.stop => cr1.stop)
               /\ (pc' = "done" => result' = ClaimErrorOf(pend))
               /\ (pc = "done" => pc' = "done")
      ]_vars

C8_Witness ==
    /\ pc = "done" /\ op = "write_read" /\ monpc = "rb_mon"
    /\ pend = "arlo" /\ result = "Arbitration"
    /\ cr1.ack /\ cr1.start /\ ~cr1.stop /\ buflen = 2 /\ idx = 0

----------------------------------------------------------------------------
(* C6: successive monitor calls on a status report the error flags set in   *)
(* it one per call, in the order timeout, CRC/PEC, overrun,                 *)
(* not-acknowledged, arbitration, then Ok; between calls exactly the flags  *)
(* not yet reported are still set.                                          *)
C6_OneFlagPerCall ==
    LET ord == InClaimOrder(mon0)
        k == Len(reports)
    IN /\ \A i \in 1..k :
            reports[i] = IF i <= Len(ord) THEN ClaimErrorOf(ord[i]) ELSE "Ok"
       /\ pc = "idle" =>
            sr1 \ {"berr"} = {ord[i] : i \in (k + 1)..Len(ord)}

C6_Witness ==
    /\ pc = "idle"
    /\ mon0 = {"timeout", "pecerr", "ovr", "af", "arlo", "berr"}
    /\ reports = <<"Timeout", "Crc", "Overrun", "Nack", "Arbitration", "Ok">>
    /\ sr1 = {}

(* C7 as stated: after every monitor call the bus-error flag is clear, and  *)
(* no call returns Bus.                                                     *)
C7_BerrAlwaysCleared ==
    /\ \A i \in 1..Len(reports) : reports[i] # "Bus"
    /\ (pc = "idle" /\ Len(reports) >= 1) => "berr" \notin sr1

(* C7 amended: no monitor call returns Bus; a call that returns Ok leaves   *)
(* the bus-error flag clear; a call that returns an error leaves it as it   *)
(* was.  So between calls the flag is set exactly if it was set at first    *)
(* and no call has returned Ok yet.                                         *)
C7_BerrClearedOnOk ==
    /\ \A i \in 1..Len(reports) : reports[i] # "Bus"
    /\ pc = "idle" =>
         ("berr" \in sr1 <=>
            ("berr" \in mon0 /\ \A i \in 1..Len(reports) : reports[i] # "Ok"))

C7_Witness ==
    /\ pc = "idle"
    /\ mon0 = {"timeout", "af", "berr"}
    /\ reports = <<"Timeout", "Nack", "Ok">>
    /\ sr1 = {}

----------------------------------------------------------------------------
\* the bus actions of an error-free operation
BusOf(o, a, bs, n) ==
    CASE o = "write"      -> BusWritePhase(a, bs) \o <<<<"STOP", 0>>>>
      [] o = "read"       -> BusReadPhase(a, n)
      [] o = "write_read" -> BusWritePhase(a, bs) \o BusReadPhase(a, n)

(* C10: a set_config step changes nothing but CR2.FREQ, CCR and TRISE: CR1  *)
(* (PE, START, STOP, ACK), SR1 and the record of register accesses are as   *)
(* before; when it returns, the three registers hold the fields of one      *)
(* Timings value.  An error-free operation issues the START, address, data  *)
(* and STOP actions its arguments determine, whatever was configured.       *)
C10_SetConfigFrame ==
    [][/\ ncfg' # ncfg
            => /\ cr1' = cr1 /\ sr1' = sr1
               /\ log' = log /\ touched' = touched
               /\ UNCHANGED <<args, idx, buffer>>
               /\ pc' = "idle" =>
                    \E c \in Clocks, s \in Speeds :
                       /\ ~Timings(c, s).panic
                       /\ cr2' = Timings(c, s).freq
                       /\ ccr' = [f_s  |-> Timings(c, s).mode,
                                  duty |-> Timings(c, s).duty,
                                  ccr  |-> Timings(c, s).ccr]
                       /\ trise' = Timings(c, s).trise
       /\ (pc' = "done" /\ result' = "Ok")
            => Bus(log') = BusOf(op', addr', bytes', buflen')
      ]_vars

C10_Witness ==
    /\ pc = "done" /\ result = "Ok" /\ op = "write_read"
    /\ Len(bytes) = 2 /\ buflen = 2
    /\ ncfg = 2 /\ cr2 = 50 /\ trise = 16
    /\ ccr = [f_s |-> "Fast", duty |-> "Duty2_1", ccr |-> 41]

----------------------------------------------------------------------------
(* C11: for a clock of 2 MHz to 50 MHz, after Timings::new has returned and *)
(* its fields are in the registers: a target of at most 100 kHz gives       *)
(* standard mode, duty 2:1 and a 16-bit ccr of at least 4; a target above   *)
(* 100 kHz gives fast mode and a 16-bit ccr of at least 1.                  *)
C11_CcrFloor ==
    (pc = "idle" /\ cfgin[1] >= 2000000 /\ cfgin[1] <= 50000000)
    => /\ cfgin[2] <= 100000
            => (ccr.f_s = "Standard" /\ ccr.duty = "Duty2_1" /\ ccr.ccr >= 4)
       /\ cfgin[2] > 100000
            => (ccr.f_s = "Fast" /\ ccr.ccr >= 1)

(* C12: after Timings::new has accepted the clock, the divisor in CR2.FREQ  *)
(* is clock / 1,000,000, in 2..50, and TRISE is divisor + 1 for a target of *)
(* at most 100 kHz and floor(divisor * 300 / 1000) + 1 above; both are the  *)
(* computed values themselves, nothing is lost in the 8-bit fields.         *)
C12_RiseTime ==
    pc = "idle"
    => LET d == cfgin[1] \div 1000000
       IN /\ d >= 2 /\ d <= 50
          /\ cr2 = d
          /\ trise = IF cfgin[2] <= 100000 THEN d + 1 ELSE ((d * 300) \div 1000) + 1
          /\ cr2 < 256 /\ trise < 256

C12_Witness ==
    /\ pc = "idle" /\ ncfg = 2
    /\ cfgin = <<50999999, 100001>>
    /\ cr2 = 50 /\ trise = 16

(* C13: a set_config with a clock whose divisor clock / 1,000,000 is outside *)
(* 2..50 ends in the panic of the assertion, not in a return, and leaves    *)
(* CR2.FREQ, CCR and TRISE as they were; at all times the three registers   *)
(* hold the fields of one accepted Timings value.                           *)
C13_PanicLeavesRegisters ==
    [][/\ (ncfg' # ncfg /\ (cfgin'[1] \div 1000000) \notin 2..50)
            => /\ pc' = "panicked" /\ result' = "panic"
               /\ cr2' = cr2 /\ ccr' = ccr /\ trise' = trise
       /\ \E c \in TimClocks, s \in TimSpeeds \ {0} :
            /\ (c \div 1000000) \in 2..50
            /\ cr2' = Timings(c, s).freq
            /\ ccr'.ccr = Timings(c, s).ccr /\ ccr'.f_s = Timings(c, s).mode
            /\ trise' = Timings(c, s).trise
      ]_vars

C13_Witness ==
    /\ pc = "panicked" /\ result = "panic" /\ ncfg = 2
    /\ cfgin = <<51000000, 400000>>
    /\ cr2 = 2 /\ trise = 3 /\ ccr.ccr = 0

----------------------------------------------------------------------------
(* C14: when the write phase is about to write the address byte, the SR2    *)
(* read that ended the master/busy wait showed MSL and BUSY both set.       *)
C14_MasterAndBusy ==
    (op \in {"write", "write_read"} /\ pc = "wb_addr") => sr2 = {"msl", "busy"}

(* C15: in the record of an operation every observation of ADDR is followed *)
(* directly by the SR2 read, before any data-register access and any CR1    *)
(* write; every such SR2 read follows an observation of ADDR directly, so   *)
(* there is one per address phase, with or without payload; the driver is   *)
(* at the SR2 read exactly while the observation is the last entry.         *)
C15_AddrClearedFirst ==
    /\ \A i \in Positions(log, {"ADDR"}) : i < Len(log) => log[i + 1][1] = "CLR"
    /\ \A i \in Positions(log, {"CLR"}) : i > 1 /\ log[i - 1][1] = "ADDR"
    /\ (pc \in {"wb_clr", "r_clr"}) <=> (log # <<>> /\ log[Len(log)][1] = "ADDR")
    /\ (pc = "done" /\ result = "Ok")
         => Cardinality(Positions(log, {"CLR"})) = IF op = "write_read" THEN 2 ELSE 1

C15_Witness ==
    /\ pc = "done" /\ op = "write" /\ result = "Ok" /\ bytes = <<>>
    /\ Cardinality(Positions(log, {"CLR"})) = 1

\* the status bits a poll waits for, as recorded in log
ProgressKinds == {"SB", "ADDR", "TXE", "BTF", "RXNE"}

\* l2 is l with the observation of a progress bit added
Observed(l, l2) == Len(l2) = Len(l) + 1 /\ l2[Len(l2)][1] \in ProgressKinds

(* C16: in the polls that call the Error Flag Monitor, a step that finds    *)
(* the awaited progress bit set takes it from an SR1 value without error    *)
(* flags: the value the step reads, or the snapshot the monitor returned    *)
(* after clearing BERR.                                                     *)
C16_ProgressFromMonitorSnapshot ==
    [][(Observed(log, log') /\ pc \notin {"r_sb", "berr_wr"})
         => sr1 \cap ErrFlags = {}]_vars

\* what the poll at p waits for, "none" outside the polls
WaitOf(p) ==
    CASE p \in {"wb_sb", "r_sb"}                -> "SB"
      [] p \in {"wb_msl", "wb_sr2", "r_msl"}    -> "MSL"
      [] p \in {"wb_wait_addr", "r_wait_addr"}  -> "ADDR"
      [] p = "sb_txe"                           -> "TXE"
      [] p = "sb_btf"                           -> "BTF"
      [] p \in {"rb_mon", "rb_rxne"}            -> "RXNE"
      [] p = "wait_stop"                        -> "STOPCLR"
      [] OTHER                                  -> "none"

\* the same with the monitor's BERR clear counted to the poll that called it
Waiting(p, mp) == IF p \in {"berr_rd", "berr_wr"} THEN WaitOf(mp) ELSE WaitOf(p)

(* C17: a poll is left only by a read that shows what it waits for (for the *)
(* STOP wait: CR1.STOP clear), or by the monitor finding an error flag set  *)
(* in SR1; so without either the operation stays in the poll and does not   *)
(* return.  Timeout is returned only for the timeout flag the monitor read  *)
(* set in SR1.                                                              *)
C17_NoTimeoutInPolls ==
    [][/\ (Waiting(pc, monpc) # "none" /\ Waiting(pc', monpc') # Waiting(pc, monpc))
            => \/ /\ log' = Append(log, <<Waiting(pc, monpc), 0>>)
                  /\ pc = "wait_stop" => ~cr1.stop
               \/ /\ pc' = "mon_clr_rd"
                  /\ pend' \in sr1 \cap ErrFlags
       /\ (result' = "Timeout" /\ result # "Timeout")
            => (pc = "mon_clr_wr" /\ pend = "timeout")
       /\ (pend' = "timeout" /\ pend # "timeout") => "timeout" \in sr1
      ]_vars

C17_Witness ==
    /\ pc = "done" /\ op = "read" /\ result = "Timeout"
    /\ pend = "timeout" /\ monpc = "rb_mon" /\ idx = 1 /\ buflen = 2

ErrResults == {"Timeout", "Crc", "Overrun", "Nack", "Arbitration"}

\* the driver is in a poll loop that calls the Error Flag Monitor
InMonitoredWait ==
    pc \in {"wb_sb", "wb_msl", "wb_sr2", "wb_wait_addr", "sb_txe", "sb_btf",
            "r_wait_addr", "rb_mon", "rb_rxne", "berr_rd", "berr_wr"}

(* C18 as stated: with the fair peripheral every call returns, and an error *)
(* flag that is set while the driver is in a monitored wait leads to the    *)
(* return of an Err.                                                        *)
C18_FlagInWaitReturnsErr ==
    /\ (op # "none") ~> (pc = "done")
    /\ (InMonitoredWait /\ sr1 \cap ErrFlags # {})
         ~> (pc = "done" /\ result \in ErrResults)

(* C18 amended: with the fair peripheral every call returns, and an error   *)
(* flag that is set when a poll is about to call the Error Flag Monitor     *)
(* leads to the return of an Err.                                           *)
C18_CallsReturn ==
    /\ (op # "none") ~> (pc = "done")
    /\ (pc \in MonPcs /\ sr1 \cap ErrFlags # {})
         ~> (pc = "done" /\ result \in ErrResults)

C18_Witness ==
    /\ pc = "done" /\ op = "write_read" /\ result = "Ok"
    /\ Len(bytes) = 2 /\ buflen = 2 /\ sr1 \cap ErrFlags # {}

(* C19: blocking_write_read with an empty read buffer runs the write phase; *)
(* if no error ends the write phase it returns Err(Overrun) after START,    *)
(* the address byte with bit 0 = 0 and every payload byte, each with its    *)
(* waits; it requests neither STOP nor a repeated START and reads no data.  *)
C19_EmptyBufferAfterWritePhase ==
    (op = "write_read" /\ buflen = 0)
    => /\ Positions(log, {"START_ACK", "STOP", "NACK_STOP", "RD", "STOPCLR"}) = {}
       /\ IsPrefix(Bus(log), BusWritePhase(addr, bytes))
       /\ (pc = "done" /\ pend = "none")
            => /\ result = "Overrun"
               /\ touched
               /\ Bus(log) = BusWritePhase(addr, bytes)
               /\ log \o <<<<"STOP", 0>>, <<"STOPCLR", 0>>>> = FullWrite(addr, bytes)
       /\ (pc = "done" /\ pend # "none") => result = ClaimErrorOf(pend)

C19_Witness ==
    /\ pc = "done" /\ op = "write_read" /\ buflen = 0 /\ Len(bytes) = 2
    /\ result = "Overrun" /\ pend = "none" /\ ~cr1.stop

(* C20: an error flag that is set in SR1 is cleared only by the write of    *)
(* the monitor call that reports this flag.                                 *)
C20_OnlyReportedFlagCleared ==
    [][\A f \in ErrFlags :
          (f \in sr1 /\ f \notin sr1') => (pc = "mon_clr_wr" /\ pend = f)]_vars

====
